---------------------------- MODULE Spec2Model ----------------------------
(***************************************************************************)
(* Viewer session of site/app.js: document load with worker fallback,      *)
(* cancellable page rendering and pager state, under the browser's         *)
(* single-threaded event loop.  Every action is one event-loop task: a     *)
(* click handler or a backend promise continuation, run from the point     *)
(* where it is resumed to its next await (or its end).                     *)
(*                                                                         *)
(* loads and renders keep one record per loadPdf / renderPage call.  The   *)
(* fields pc, item, doc, pageNum, caller and task are the call's closure   *)
(* and position; the remaining fields (decodes, overlapped, reselect,      *)
(* failed, superseded, stale) are history the properties are stated over and       *)
(* never feed back into the program's behaviour.  superseded and stale     *)
(* describe a pending call and are dropped when the call ends.             *)
(***************************************************************************)
EXTENDS Naturals, Integers, Sequences, FiniteSets

(* ------------------------------ bounds --------------------------------- *)
(* User events (list selections and previous/next clicks) per session.      *)
MaxEvents == 2

(* --------------------------- program constants ------------------------- *)
LOCAL_WORKER == "local"
CDN_WORKER == "cdn"

STATUS_EMPTY == ""
STATUS_LOADING == "Loading..."
STATUS_RENDERING == "Rendering..."
STATUS_RENDER_FAILED == "Failed to render page."
STATUS_LOAD_FAILED == "Failed to load PDF."

NoDoc == 0
NoItem == "none"
NoTask == 0

(* The manifest injected into the page: two documents.                     *)
PDF_LIST == <<"A", "B">>
Items == {PDF_LIST[k] : k \in 1..Len(PDF_LIST)}

(* doc.numPages of the document decoded from an entry.                     *)
NumPagesOf(item) == IF item = "A" THEN 3 ELSE 1

(* Text of the page indicator: the placeholder or "Page p / n".            *)
Placeholder == [page |-> 0, pages |-> 0]
PageText(page, pages) == [page |-> page, pages |-> pages]

VARIABLES current, workerSrc, els, loads, renders

vars == <<current, workerSrc, els, loads, renders>>

(* A decoded document is identified by the loadPdf call and the attempt    *)
(* (1 = try block, 2 = retry) whose getDocument produced it.               *)
DocId(load, attempt) == 2 * (load - 1) + attempt
DocLoad(doc) == (doc + 1) \div 2
DocItem(doc) == loads[DocLoad(doc)].item
NumPages(doc) == NumPagesOf(DocItem(doc))

(* ------------------------------ helpers -------------------------------- *)
SetStatus(e, msg) == [e EXCEPT !.status = msg]

SetControlsEnabled(e, enabled) ==
    [e EXCEPT !.prevDisabled = ~enabled,
              !.nextDisabled = ~enabled,
              !.downloadDisabled = ~enabled]

(* updatePager with the lower boundary off by one.                         *)
UpdatePagerOffByOne(cur, e) ==
    [e EXCEPT !.prevDisabled = ~(cur.doc # NoDoc /\ cur.page >= 1),
              !.nextDisabled = ~(cur.doc # NoDoc /\ cur.page < cur.pages),
              !.indicator = IF cur.doc # NoDoc
                            THEN PageText(cur.page, cur.pages)
                            ELSE Placeholder]

(* updatePager with the upper boundary off by one.                         *)
UpdatePagerNextOffByOne(cur, e) ==
    [e EXCEPT !.prevDisabled = ~(cur.doc # NoDoc /\ cur.page > 1),
              !.nextDisabled = ~(cur.doc # NoDoc /\ cur.page <= cur.pages),
              !.indicator = IF cur.doc # NoDoc
                            THEN PageText(cur.page, cur.pages)
                            ELSE Placeholder]

UpdatePager(cur, e) ==
    [e EXCEPT !.prevDisabled = ~(cur.doc # NoDoc /\ cur.page > 1),
              !.nextDisabled = ~(cur.doc # NoDoc /\ cur.page < cur.pages),
              !.indicator = IF cur.doc # NoDoc
                            THEN PageText(cur.page, cur.pages)
                            ELSE Placeholder]

(* renderTask.cancel(): a running task is marked so that its promise       *)
(* rejects with RenderingCancelledException; no effect otherwise.          *)
CancelTask(rs, t) ==
    IF t # NoTask /\ rs[t].task = "running"
    THEN [rs EXCEPT ![t].task = "cancelled"]
    ELSE rs

(* History: a later renderPage call on the same document was issued        *)
(* while this call was still pending.                                      *)
MarkSuperseded(rs, doc) ==
    [k \in 1..Len(rs) |->
        IF rs[k].pc # "done" /\ rs[k].doc = doc
        THEN [rs[k] EXCEPT !.superseded = TRUE] ELSE rs[k]]

(* History: a loadPdf call for another entry started while this            *)
(* renderPage call was still pending.                                      *)
MarkStale(rs, item) ==
    [k \in 1..Len(rs) |->
        IF rs[k].pc # "done" /\ DocItem(rs[k].doc) # item
        THEN [rs[k] EXCEPT !.stale = TRUE] ELSE rs[k]]

(* History: a later loadPdf call started while the getDocument of this     *)
(* call was outstanding.                                                   *)
MarkOverlapped(ls) ==
    [k \in 1..Len(ls) |->
        IF ls[k].pc \in {"decode1", "decode2"}
        THEN [ls[k] EXCEPT !.overlapped = TRUE] ELSE ls[k]]

(* A renderPage that forgets to store the requested page number.           *)
RenderPageStartKeepsPage(cur, e, rs, pageNum, caller) ==
    IF cur.doc = NoDoc
    THEN [current |-> cur, els |-> e, renders |-> rs]
    ELSE LET call == [doc |-> cur.doc, pageNum |-> pageNum, caller |-> caller,
                      pc |-> "getPage", task |-> "none",
                      superseded |-> FALSE, stale |-> FALSE]
         IN [current |-> cur,
             els |-> SetStatus(UpdatePager(cur, e), STATUS_RENDERING),
             renders |-> Append(MarkSuperseded(CancelTask(rs, cur.renderTask),
                                               cur.doc), call)]

(* renderPage(pageNum) from its entry to the await of doc.getPage.         *)
(* Yields the session state it leaves; caller is the awaiting loadPdf      *)
(* call, or 0 for a previous/next click.                                   *)
RenderPageStart(cur, e, rs, pageNum, caller) ==
    IF cur.doc = NoDoc
    THEN [current |-> cur, els |-> e, renders |-> rs]
    ELSE LET cancelled == CancelTask(rs, cur.renderTask)
             cur2 == [cur EXCEPT !.page = pageNum]
             call == [doc |-> cur.doc, pageNum |-> pageNum, caller |-> caller,
                      pc |-> "getPage", task |-> "none",
                      superseded |-> FALSE, stale |-> FALSE]
         IN [current |-> cur2,
             els |-> SetStatus(UpdatePager(cur2, e), STATUS_RENDERING),
             renders |-> Append(MarkSuperseded(cancelled, cur.doc), call)]

(* What the canvas is sized for and what is painted on it.                 *)
Blank == [doc |-> NoDoc, page |-> 0]
PageOf(call) == [doc |-> call.doc, page |-> call.pageNum]

(* ------------------------------- Init ---------------------------------- *)
(* The markup of index.html: empty status, placeholder indicator,          *)
(* navigation disabled, blank canvas.                                      *)
InitialMarkup ==
    [title |-> "", meta |-> 0, href |-> NoItem, active |-> NoItem,
     status |-> STATUS_EMPTY, prevDisabled |-> TRUE, nextDisabled |-> TRUE,
     downloadDisabled |-> TRUE, indicator |-> Placeholder,
     canvas |-> [sized |-> Blank, drawn |-> Blank]]

Init ==
    /\ current = [doc |-> NoDoc, item |-> NoItem, page |-> 1, pages |-> 0,
                  renderTask |-> NoTask]
    /\ workerSrc = LOCAL_WORKER
    /\ els = InitialMarkup
    /\ loads = <<>>
    /\ renders = <<>>

(* ------------------------- loadPdf (lines 84-125) ---------------------- *)
(* A loadPdf that returns early when the entry is already shown.           *)
LoadPdfStartSkipsActive(cur, e, item) ==
    IF cur.item = item /\ cur.doc # NoDoc
    THEN [current |-> cur, els |-> e]
    ELSE [current |-> [cur EXCEPT !.item = item, !.page = 1, !.pages = 0,
                                  !.doc = NoDoc],
          els |-> SetStatus(SetControlsEnabled(
                      [e EXCEPT !.title = item, !.meta = 0, !.href = item], FALSE),
                      STATUS_LOADING)]

(* Lines 85-101 of loadPdf: reset the session, show "Loading...", issue    *)
(* the first getDocument and suspend on it.                                *)
LoadPdfStart(cur, e, item) ==
    [current |-> [cur EXCEPT !.item = item, !.page = 1, !.pages = 0,
                             !.doc = NoDoc],
     els |-> SetStatus(SetControlsEnabled(
                 [e EXCEPT !.title = item, !.meta = 0, !.href = item], FALSE),
                 STATUS_LOADING)]

(* A catch block that flips between the two worker sources.                *)
FallbackWorkerToggle(ws) == IF ws = LOCAL_WORKER THEN CDN_WORKER ELSE LOCAL_WORKER

(* A catch block that retries without switching the worker source.         *)
FallbackWorkerKeep(ws) == ws

(* The worker the catch block of line 108 selects.                         *)
FallbackWorker(ws) == CDN_WORKER

(* A getDocument request: the worker source it was issued under.           *)
DecodeRequest(ws) == [ws |-> ws, res |-> "pending"]

(* Number of renderPage calls made by the previous/next buttons.           *)
NavCalls == Cardinality({k \in 1..Len(renders) : renders[k].caller = 0})

(* User events handled so far.                                             *)
Events == Len(loads) + NavCalls

(* History: the entry clicked is the one already shown, and no loadPdf or  *)
(* renderPage call is pending.                                             *)
Reselects(cur, ls, rs, item) ==
    /\ cur.doc # NoDoc /\ cur.item = item
    /\ \A i \in 1..Len(ls) : ls[i].pc = "done"
    /\ \A r \in 1..Len(rs) : rs[r].pc = "done"

(* Click on a list button (lines 141-145): mark it active, then loadPdf    *)
(* up to its first await.                                                  *)
SelectItem(item) ==
    /\ Events < MaxEvents
    /\ LET st == LoadPdfStart(current, [els EXCEPT !.active = item], item)
           call == [item |-> item, pc |-> "decode1",
                    decodes |-> <<DecodeRequest(workerSrc)>>,
                    overlapped |-> FALSE,
                    reselect |-> Reselects(current, loads, renders, item),
                    failed |-> FALSE]
       IN /\ current' = st.current
          /\ els' = st.els
          /\ loads' = Append(MarkOverlapped(loads), call)
          /\ renders' = MarkStale(renders, item)
    /\ UNCHANGED workerSrc

(* History: the outcome of the latest getDocument of call i.               *)
Settle(ls, i, res) ==
    [ls EXCEPT ![i].decodes[Len(ls[i].decodes)].res = res]

(* Lines 102-107 / 114-119: the decode succeeded; adopt the document,      *)
(* enable the controls, refresh the pager and call renderPage(1).          *)
DecodeResolved(i) ==
    /\ i \in 1..Len(loads)
    /\ loads[i].pc \in {"decode1", "decode2"}
    /\ LET attempt == IF loads[i].pc = "decode1" THEN 1 ELSE 2
           doc == DocId(i, attempt)
           cur2 == [current EXCEPT !.doc = doc, !.pages = NumPages(doc)]
           e2 == UpdatePager(cur2,
                     SetControlsEnabled([els EXCEPT !.meta = NumPages(doc)], TRUE))
           st == RenderPageStart(cur2, e2, renders, 1, i)
       IN /\ current' = st.current
          /\ els' = st.els
          /\ renders' = st.renders
          /\ loads' = [Settle(loads, i, "ok") EXCEPT
                          ![i].pc = IF attempt = 1 THEN "render1" ELSE "render2"]
    /\ UNCHANGED workerSrc

(* Lines 108-113: whatever the try block threw, switch the worker source   *)
(* and issue getDocument again.                                            *)
Retry(ls, i) ==
    [ls EXCEPT ![i].pc = "decode2",
               ![i].decodes = Append(@, DecodeRequest(FallbackWorker(workerSrc)))]

(* An inner catch that issues yet another getDocument.                     *)
GiveUpAndRetry(ls, i) ==
    [ls EXCEPT ![i].decodes = Append(@, DecodeRequest(workerSrc))]

(* Lines 120-122: the retry threw; terminal status.                        *)
GiveUp(ls, i) == [ls EXCEPT ![i].pc = "done", ![i].failed = TRUE]

(* The promise of getDocument rejected.                                    *)
DecodeRejected(i) ==
    /\ i \in 1..Len(loads)
    /\ loads[i].pc \in {"decode1", "decode2"}
    /\ IF loads[i].pc = "decode1"
       THEN /\ workerSrc' = FallbackWorker(workerSrc)
            /\ loads' = Retry(Settle(loads, i, "fail"), i)
            /\ UNCHANGED els
       ELSE /\ els' = SetStatus(els, STATUS_LOAD_FAILED)
            /\ loads' = GiveUp(Settle(loads, i, "fail"), i)
            /\ UNCHANGED workerSrc
    /\ UNCHANGED <<current, renders>>

(* ------------------------ renderPage (lines 46-82) --------------------- *)
(* Lines 150-151: a click on an enabled previous/next button.              *)
NavClick(delta) ==
    /\ Events < MaxEvents
    /\ IF delta = -1 THEN ~els.prevDisabled ELSE ~els.nextDisabled
    /\ LET st == RenderPageStart(current, els, renders, current.page + delta, 0)
       IN /\ current' = st.current
          /\ els' = st.els
          /\ renders' = st.renders
    /\ UNCHANGED <<workerSrc, loads>>

(* renderPage returned to the loadPdf call awaiting it (lines 107, 119):   *)
(* that call has nothing left to do.                                       *)
Returned(ls, caller) ==
    IF caller # 0 /\ ls[caller].pc \in {"render1", "render2"}
    THEN [ls EXCEPT ![caller].pc = "done"]
    ELSE ls

(* The end of renderPage call r: its task, if any, has settled.            *)
Ended(rs, r) ==
    [rs EXCEPT ![r].pc = "done",
               ![r].task = IF @ = "none" THEN "none" ELSE "settled",
               ![r].superseded = FALSE, ![r].stale = FALSE]

(* Lines 63-75: the page object arrived; size the canvas, start the        *)
(* render task, store it and suspend on its promise.                       *)
GetPageResolved(r) ==
    /\ r \in 1..Len(renders)
    /\ renders[r].pc = "getPage"
    /\ els' = [els EXCEPT !.canvas = [sized |-> PageOf(renders[r]), drawn |-> Blank]]
    /\ current' = [current EXCEPT !.renderTask = r]
    /\ renders' = [renders EXCEPT ![r].pc = "render", ![r].task = "running"]
    /\ UNCHANGED <<workerSrc, loads>>

(* Line 63 threw: doc.getPage rejected outside the try of line 74, so the  *)
(* rejection leaves renderPage.  A click handler drops it; an awaiting     *)
(* loadPdf call catches it at line 108 or line 120.                        *)
GetPageRejected(r) ==
    /\ r \in 1..Len(renders)
    /\ renders[r].pc = "getPage"
    /\ renders' = Ended(renders, r)
    /\ LET c == renders[r].caller
       IN IF c # 0 /\ loads[c].pc = "render1"
          THEN /\ workerSrc' = FallbackWorker(workerSrc)
               /\ loads' = Retry(loads, c)
               /\ UNCHANGED els
          ELSE IF c # 0 /\ loads[c].pc = "render2"
          THEN /\ els' = SetStatus(els, STATUS_LOAD_FAILED)
               /\ loads' = GiveUp(loads, c)
               /\ UNCHANGED workerSrc
          ELSE UNCHANGED <<els, loads, workerSrc>>
    /\ UNCHANGED current

(* Lines 75-76: task.promise fulfilled; the page is on the canvas.         *)
RenderCompleted(r) ==
    /\ r \in 1..Len(renders)
    /\ renders[r].pc = "render" /\ renders[r].task = "running"
    /\ els' = SetStatus([els EXCEPT !.canvas.drawn = PageOf(renders[r])], STATUS_EMPTY)
    /\ renders' = Ended(renders, r)
    /\ loads' = Returned(loads, renders[r].caller)
    /\ UNCHANGED <<current, workerSrc>>

(* A catch block that does not tell a cancellation from a failure.         *)
RenderCancelledAsFailure(r) ==
    /\ r \in 1..Len(renders)
    /\ renders[r].pc = "render" /\ renders[r].task = "cancelled"
    /\ els' = SetStatus(els, STATUS_RENDER_FAILED)
    /\ renders' = Ended(renders, r)
    /\ loads' = Returned(loads, renders[r].caller)
    /\ UNCHANGED <<current, workerSrc>>

(* Lines 77-78: task.promise rejected with RenderingCancelledException.    *)
RenderCancelled(r) ==
    /\ r \in 1..Len(renders)
    /\ renders[r].pc = "render" /\ renders[r].task = "cancelled"
    /\ renders' = Ended(renders, r)
    /\ loads' = Returned(loads, renders[r].caller)
    /\ UNCHANGED <<current, els, workerSrc>>

(* A failure handler that also locks the navigation controls.              *)
RenderFailedLocksControls(r) ==
    /\ r \in 1..Len(renders)
    /\ renders[r].pc = "render" /\ renders[r].task = "running"
    /\ els' = SetControlsEnabled(SetStatus(els, STATUS_RENDER_FAILED), FALSE)
    /\ renders' = Ended(renders, r)
    /\ loads' = Returned(loads, renders[r].caller)
    /\ UNCHANGED <<current, workerSrc>>

(* Lines 77-80: task.promise rejected with any other error.                *)
RenderFailed(r) ==
    /\ r \in 1..Len(renders)
    /\ renders[r].pc = "render" /\ renders[r].task = "running"
    /\ els' = SetStatus(els, STATUS_RENDER_FAILED)
    /\ renders' = Ended(renders, r)
    /\ loads' = Returned(loads, renders[r].caller)
    /\ UNCHANGED <<current, workerSrc>>

(* ------------------------------ Next ----------------------------------- *)
MaxRenders == 2 * MaxEvents

Next ==
    \/ \E item \in Items : SelectItem(item)
    \/ \E i \in 1..MaxEvents : DecodeResolved(i)
    \/ \E i \in 1..MaxEvents : DecodeRejected(i)
    \/ \E delta \in {-1, 1} : NavClick(delta)
    \/ \E r \in 1..MaxRenders : GetPageResolved(r)
    \/ \E r \in 1..MaxRenders : GetPageRejected(r)
    \/ \E r \in 1..MaxRenders : RenderCompleted(r)
    \/ \E r \in 1..MaxRenders : RenderCancelled(r)
    \/ \E r \in 1..MaxRenders : RenderFailed(r)

Spec == Init /\ [][Next]_vars

(* ======================= properties of the session ===================== *)
LoadIds == 1..Len(loads)
RenderIds == 1..Len(renders)
AllLoadsDone == \A i \in LoadIds : loads[i].pc = "done"

(* C1: of render requests issued on the same document before any of them   *)
(* has completed, only the last one updates the surface or the status:     *)
(* the task of every earlier one settles on the cancelled path, leaving    *)
(* canvas and status as they were.                                         *)
C1_OnlyLatestRenderCompletes ==
    [][\A k \in RenderIds :
          (renders[k].superseded /\ renders[k].pc = "render" /\ renders'[k].pc = "done")
          => /\ renders[k].task = "cancelled"
             /\ els'.canvas = els.canvas
             /\ els'.status = els.status]_vars

(* C2: at most one backend render task is in flight (started, neither      *)
(* cancelled nor settled) in every reachable state.                        *)
C2_AtMostOneRenderInFlight ==
    Cardinality({k \in RenderIds : renders[k].task = "running"}) <= 1

(* C3: once loadPdf has started for another document, no render requested  *)
(* for the previous document completes: it neither draws nor changes the   *)
(* status line.                                                            *)
C3_NoStaleRenderCompletes ==
    [][\A k \in RenderIds :
          (renders[k].stale /\ renders[k].pc = "render" /\ renders'[k].pc = "done")
          => /\ renders[k].task = "cancelled"
             /\ els'.canvas = els.canvas
             /\ els'.status = els.status]_vars

(* C4: loadPdf(A), then loadPdf(B) before A's decode settles: once all     *)
(* loads have settled and B's succeeded, the session holds B's document,   *)
(* B's page count and B as item.                                           *)
C4_LatestLoadWins ==
    \A i \in LoadIds :
        LET j == Len(loads)
        IN (/\ i < j /\ loads[i].overlapped /\ loads[i].item # loads[j].item
            /\ AllLoadsDone /\ ~loads[j].failed)
           => /\ current.doc # NoDoc
              /\ DocLoad(current.doc) = j
              /\ current.pages = NumPagesOf(loads[j].item)
              /\ current.item = loads[j].item

(* C5: workerSrc starts as the local worker and only ever changes from     *)
(* the local worker to the CDN worker; it never changes back.              *)
C5_WorkerSourceOneWay ==
    /\ workerSrc = LOCAL_WORKER
    /\ [][\/ workerSrc' = workerSrc
          \/ (workerSrc = LOCAL_WORKER /\ workerSrc' = CDN_WORKER)]_vars

(* C5 witness: a load issued its first decode under the CDN worker, failed *)
(* it, and went through the catch block again.                             *)
C5_Witness ==
    \E i \in LoadIds :
        /\ loads[i].decodes[1].ws = CDN_WORKER
        /\ loads[i].decodes[1].res = "fail"
        /\ workerSrc = CDN_WORKER

(* C6 as claimed: a decode issued and failed while workerSrc is already    *)
(* the CDN worker is the call's last decode and ends the call in failure.  *)
C6_NoRetryOnceDegraded ==
    \A i \in LoadIds : \A d \in 1..Len(loads[i].decodes) :
        (loads[i].decodes[d].res = "fail" /\ loads[i].decodes[d].ws = CDN_WORKER)
        => (d = Len(loads[i].decodes) /\ loads[i].pc = "done" /\ loads[i].failed)

(* C6 amended: the failure of a call's first decode is always followed by  *)
(* exactly one retry under the CDN worker, whatever workerSrc was; the     *)
(* failure of the retry sets the load-failure status and ends the call,    *)
(* which issues no further decode.                                         *)
C6_RetryFailureIsTerminal ==
    [][\A i \in LoadIds :
          /\ (loads[i].pc = "decode1" /\ loads'[i].decodes[1].res = "fail")
             => /\ loads'[i].pc = "decode2"
                /\ Len(loads'[i].decodes) = 2
                /\ loads'[i].decodes[2].ws = CDN_WORKER
          /\ (loads[i].pc = "decode2" /\ loads'[i].decodes[2].res = "fail")
             => /\ els'.status = STATUS_LOAD_FAILED
                /\ loads'[i].pc = "done"
                /\ Len(loads'[i].decodes) = 2
          /\ loads[i].pc = "done"
             => (loads'[i].pc = "done" /\ loads'[i].decodes = loads[i].decodes)]_vars

(* C6 witness: a call whose first decode failed with workerSrc already the *)
(* CDN worker retried, and the retry failed as well.                       *)
C6_Witness ==
    \E i \in LoadIds :
        /\ loads[i].decodes[1].res = "fail"
        /\ loads[i].decodes[1].ws = CDN_WORKER
        /\ Len(loads[i].decodes) = 2
        /\ loads[i].decodes[2].res = "fail"
        /\ loads[i].pc = "done"

(* The scenario of C7: a single loadPdf call, no other event; the decode   *)
(* under the local worker failed, the retry succeeded, the page-1 render   *)
(* it awaited painted the canvas, and the call has returned.               *)
FallbackScenario ==
    /\ Len(loads) = 1 /\ Len(renders) = 1
    /\ loads[1].pc = "done"
    /\ Len(loads[1].decodes) = 2
    /\ loads[1].decodes[1].ws = LOCAL_WORKER
    /\ loads[1].decodes[1].res = "fail"
    /\ loads[1].decodes[2].res = "ok"
    /\ els.canvas.drawn = [doc |-> DocId(1, 2), page |-> 1]

(* C7: local decode fails, CDN decode succeeds: the call ends with the CDN *)
(* worker selected, the decoded document and its page count stored, the    *)
(* controls set by the pager rule and an empty status line.                *)
C7_FallbackLoadSucceeds ==
    FallbackScenario =>
        /\ workerSrc = CDN_WORKER
        /\ current.doc = DocId(1, 2)
        /\ current.pages = NumPagesOf(loads[1].item)
        /\ current.page = 1
        /\ els.prevDisabled
        /\ els.nextDisabled = ~(1 < NumPagesOf(loads[1].item))
        /\ ~els.downloadDisabled
        /\ els.status = STATUS_EMPTY

(* C7 witness: the scenario, on the three-page document.                   *)
C7_Witness == FallbackScenario /\ loads[1].item = "A" /\ ~els.nextDisabled

(* C8: when both decodes of a call fail, the state right after the call    *)
(* settles has no document, the load-failure status and previous/next      *)
(* disabled, whatever else was in flight.                                  *)
C8_DoubleFailureLeavesNoDocument ==
    [][\A i \in LoadIds :
          (/\ loads[i].pc = "decode2"
           /\ loads'[i].decodes[1].res = "fail"
           /\ loads'[i].decodes[2].res = "fail")
          => /\ current'.doc = NoDoc
             /\ els'.status = STATUS_LOAD_FAILED
             /\ els'.prevDisabled /\ els'.nextDisabled]_vars

(* C9: once a handler has run, previous is enabled iff a document is       *)
(* active and page > 1, next iff a document is active and page < pages.    *)
C9_PagerRule ==
    Len(loads) > 0 =>
        /\ ~els.prevDisabled <=> (current.doc # NoDoc /\ current.page > 1)
        /\ ~els.nextDisabled <=> (current.doc # NoDoc /\ current.page < current.pages)

(* C9 witness: a middle page is shown, both controls enabled.              *)
C9_Witness ==
    /\ current.doc # NoDoc /\ current.page = 2 /\ current.pages = 3
    /\ ~els.prevDisabled /\ ~els.nextDisabled

(* C10: once a handler has run, the indicator shows page / pages when a    *)
(* document is active and the placeholder when none is.                    *)
C10_IndicatorRule ==
    Len(loads) > 0 =>
        els.indicator = IF current.doc # NoDoc
                        THEN PageText(current.page, current.pages)
                        ELSE Placeholder


AllRendersDone == \A r \in RenderIds : renders[r].pc = "done"

(* C11: whenever a document is active, 1 <= page <= pages.                 *)
C11_PageInRange ==
    current.doc # NoDoc => (1 <= current.page /\ current.page <= current.pages)

(* C11 witness: a next click moved a three-page document to page 2 and     *)
(* its render has settled.                                                 *)
C11_Witness ==
    /\ current.doc # NoDoc /\ current.page = 2 /\ current.pages = 3
    /\ Len(renders) = 2 /\ renders[2].caller = 0 /\ renders[2].task = "settled"

(* C12: a renderPage(n) call with n in range stores n as page and shows    *)
(* the rendering text before it suspends; and when the task of the latest  *)
(* call is fulfilled with its document still active, page is still n and   *)
(* the status line is empty.                                               *)
C12_RenderSetsPageAndClearsStatus ==
    [][/\ Len(renders') > Len(renders)
          => LET c == renders'[Len(renders')]
             IN /\ c.pc = "getPage"
                /\ current'.page = c.pageNum
                /\ els'.status = STATUS_RENDERING
       /\ \A r \in RenderIds :
             (/\ renders[r].pc = "render" /\ renders[r].task = "running"
              /\ renders'[r].pc = "done"
              /\ els'.canvas.drawn # els.canvas.drawn
              /\ r = Len(renders) /\ current.doc = renders[r].doc)
             => /\ current'.page = renders[r].pageNum
                /\ els'.canvas.drawn = PageOf(renders[r])
                /\ els'.status = STATUS_EMPTY]_vars

(* C12 witness: page 2 was requested by a click, painted, and the status   *)
(* cleared.                                                                *)
C12_Witness ==
    /\ current.page = 2
    /\ els.canvas.drawn = [doc |-> current.doc, page |-> 2]
    /\ els.status = STATUS_EMPTY

(* C13: handling the rejection of a cancelled render task leaves the       *)
(* status line, and every other element, exactly as it was.                *)
C13_CancellationIsSilent ==
    [][\A r \in RenderIds :
          (renders[r].task = "cancelled" /\ renders'[r].pc = "done")
          => (els'.status = els.status /\ els' = els)]_vars

(* C13 witness: a running task was cancelled by a newer renderPage call    *)
(* and its rejection is about to be handled.                               *)
C13_Witness ==
    \E r \in RenderIds :
        /\ renders[r].pc = "render" /\ renders[r].task = "cancelled"
        /\ renders[r].superseded
        /\ els.status = STATUS_RENDERING

(* C14: a failure to obtain the page object ends the renderPage call with  *)
(* the render-failure status and reaches neither the worker fallback nor   *)
(* the load-failure handling of an awaiting loadPdf call.                  *)
C14_PageFailureCaughtInRenderPage ==
    [][\A r \in RenderIds :
          (renders[r].pc = "getPage" /\ renders'[r].pc = "done")
          => /\ els'.status = STATUS_RENDER_FAILED
             /\ workerSrc' = workerSrc
             /\ loads' = Returned(loads, renders[r].caller)]_vars

(* C15: the stored render task is never a settled one: once a render has   *)
(* settled and no newer one was started, renderTask is empty.              *)
C15_SettledTaskIsCleared ==
    current.renderTask # NoTask => renders[current.renderTask].task # "settled"

(* C16: a step that is no step of loadPdf (no call started, no decode      *)
(* settled or issued) leaves doc, item, pages and workerSrc as they were;  *)
(* and the failure of a render task leaves a still active document with    *)
(* its controls following the pager rule.                                  *)
C16_RenderLeavesDocumentState ==
    [][/\ (/\ Len(loads') = Len(loads)
           /\ \A i \in LoadIds : loads'[i].decodes = loads[i].decodes)
          => /\ current'.doc = current.doc
             /\ current'.item = current.item
             /\ current'.pages = current.pages
             /\ workerSrc' = workerSrc
       /\ \A r \in RenderIds :
             (/\ renders[r].pc = "render" /\ renders[r].task = "running"
              /\ renders'[r].pc = "done"
              /\ els'.status = STATUS_RENDER_FAILED)
             => /\ ~els'.prevDisabled <=> (current'.doc # NoDoc /\ current'.page > 1)
                /\ ~els'.nextDisabled <=>
                       (current'.doc # NoDoc /\ current'.page < current'.pages)
                /\ els'.downloadDisabled = els.downloadDisabled]_vars

(* C16 witness: a render failed and the document is still active with the  *)
(* next control enabled.                                                   *)
C16_Witness ==
    /\ els.status = STATUS_RENDER_FAILED
    /\ current.doc # NoDoc /\ current.page = 1 /\ ~els.nextDisabled
    /\ AllRendersDone

(* The latest load decoded at its first attempt and its page-1 render was  *)
(* painted, with no other call started since; it was the first selection   *)
(* of the session or a selection of the entry already shown.               *)
CleanSelection ==
    /\ Len(loads) >= 1 /\ Len(renders) >= 1
    /\ AllLoadsDone /\ AllRendersDone
    /\ Len(loads) = 1 \/ loads[Len(loads)].reselect
    /\ loads[Len(loads)].decodes = <<[ws |-> LOCAL_WORKER, res |-> "ok"]>>
    /\ renders[Len(renders)].caller = Len(loads)
    /\ els.canvas.drawn = [doc |-> DocId(Len(loads), 1), page |-> 1]

(* What the user sees, and what the session holds, once entry item is      *)
(* loaded and page 1 painted.                                              *)
Loaded(item) ==
    /\ current.doc # NoDoc /\ DocItem(current.doc) = item
    /\ current.item = item /\ current.page = 1
    /\ current.pages = NumPagesOf(item)
    /\ workerSrc = LOCAL_WORKER
    /\ els = [title |-> item, meta |-> NumPagesOf(item), href |-> item,
              active |-> item, status |-> STATUS_EMPTY,
              prevDisabled |-> TRUE, nextDisabled |-> ~(1 < NumPagesOf(item)),
              downloadDisabled |-> FALSE,
              indicator |-> PageText(1, NumPagesOf(item)),
              canvas |-> [sized |-> [doc |-> current.doc, page |-> 1],
                          drawn |-> [doc |-> current.doc, page |-> 1]]]

(* C17: selecting the entry that is already active starts a full load      *)
(* (document dropped, page 1, pages 0, controls disabled, "Loading...",    *)
(* one more decode request), and the state it settles in is the state the  *)
(* first selection settled in, up to the identity of the decoded document. *)
C17_ReselectReloads ==
    /\ [](CleanSelection => Loaded(loads[Len(loads)].item))
    /\ [][(/\ Len(loads') > Len(loads)
           /\ current.doc # NoDoc
           /\ loads'[Len(loads')].item = current.item)
          => /\ current'.doc = NoDoc /\ current'.page = 1 /\ current'.pages = 0
             /\ current'.item = current.item
             /\ els'.prevDisabled /\ els'.nextDisabled
             /\ els'.status = STATUS_LOADING
             /\ loads'[Len(loads')].pc = "decode1"
             /\ loads'[Len(loads')].decodes = <<DecodeRequest(workerSrc)>>]_vars

(* C17 witness: the same entry was selected twice and both loads settled.  *)
C17_Witness ==
    /\ CleanSelection /\ Len(loads) = 2 /\ loads[2].reselect
    /\ current.doc = DocId(2, 1)

(* C18: a call issues a second decode request only when its first one      *)
(* failed.                                                                 *)
C18_SecondDecodeOnlyAfterFailure ==
    \A i \in LoadIds :
        /\ Len(loads[i].decodes) = 2 => loads[i].decodes[1].res = "fail"
        /\ Len(loads[i].decodes) <= 2

(* C19: while the latest loadPdf call has a decode outstanding, the status *)
(* reads "Loading...", no document is active and previous/next are         *)
(* disabled.                                                               *)
C19_LoadingStateHeld ==
    (Len(loads) > 0 /\ loads[Len(loads)].pc \in {"decode1", "decode2"})
    => /\ els.status = STATUS_LOADING
       /\ current.doc = NoDoc
       /\ els.prevDisabled /\ els.nextDisabled

(* C20: once every decode, page and render request has settled and no      *)
(* handler is pending, the status line is neither "Loading..." nor         *)
(* "Rendering..." (from such a state only a user event changes anything).  *)
C20_SettledStatusIsFinal ==
    (AllLoadsDone /\ AllRendersDone)
    => els.status \notin {STATUS_LOADING, STATUS_RENDERING}

=============================================================================
